---- MODULE Spec2Model ----
(***************************************************************************)
(* Model of omero_oauth/views.py: the OAuth2 login bridge of OMERO.web.    *)
(*                                                                         *)
(* The web server runs request handlers in a fixed pool of workers.  Each  *)
(* worker handles one request at a time; a handler blocks at every call to *)
(* a collaborator (identity provider, OMERO server, web framework), and    *)
(* the handlers of the other workers may run meanwhile.  One action of the *)
(* model is the code of a handler from one blocking call to the next.      *)
(*                                                                         *)
(* The browser's web session (request.session) and the OMERO server's      *)
(* experimenters and groups are shared by all handlers.                    *)
(***************************************************************************)
EXTENDS Naturals, FiniteSets, Sequences

VARIABLES
    req,          \* per worker: the handler in flight, its locals and its call log
    websession,   \* request.session: oauth_state and connector
    accounts,     \* OMERO server: number of Experimenter rows per omeName
    groups,       \* OMERO server: number of ExperimenterGroup rows per name
    settings,     \* django settings read by the handlers
    started       \* number of requests accepted so far

vars == <<req, websession, accounts, groups, settings, started>>

\* ------------------------------------------------------------------ bounds

MaxRequests == 2

Workers == {"w1", "w2"}

Names == {"alice", "bob"}

GroupNames == {"g1", "g2"}

StateTokens == {"s1", "s2"}

\* Python's None and the empty string; both are falsy.
None == "None"

Empty == ""

Falsy(x) == x \in {None, Empty}

\* A local variable that has not been assigned yet.
Unbound == "unbound"

Codes == {None, Empty, "c1"}

\* The calls a handler makes on its collaborators.
ProviderCalls == {"fetch_token", "userinfo"}

AdminCalls == {"connect", "getExperimenter", "getGroup", "createGroup",
               "createExperimenter", "createSession", "close"}

FrameworkCalls == {"get_connection", "check_version", "create_connection",
                   "getUpgradesUrl", "upgradeCheck", "conn_close"}

CallNames == ProviderCalls \cup AdminCalls \cup FrameworkCalls

\* ------------------------------------------------------------------ userinfo

Fields == {"login", "mail", "first", "last"}

\* oauth_settings.OAUTH_USER_NAME / _EMAIL / _FIRSTNAME / _LASTNAME: the
\* userinfo fields each template refers to.
Templates == [OAUTH_USER_NAME      |-> {"login"},
              OAUTH_USER_EMAIL     |-> {"mail"},
              OAUTH_USER_FIRSTNAME |-> {"first"},
              OAUTH_USER_LASTNAME  |-> {"last"}]

TemplateOrder == <<"OAUTH_USER_NAME", "OAUTH_USER_EMAIL",
                   "OAUTH_USER_FIRSTNAME", "OAUTH_USER_LASTNAME">>

\* The userinfo responses of the provider: the login of the user and the
\* fields the response carries.
UserInfos == [login : Names, present : {Fields} \cup {Fields \ {f} : f \in Fields}]

\* template.format(**args): raises KeyError when a referenced field is absent.
_expand_template(name, args) ==
    IF Templates[name] \subseteq args.present
    THEN IF "login" \in Templates[name] THEN args.login ELSE "text"
    ELSE "KeyError"

\* ------------------------------------------------------------------ requests

Idle == [pc |-> "idle", kind |-> None, state |-> None, retstate |-> None,
         code |-> None, omename |-> None, groupname |-> None,
         e |-> Unbound, g |-> Unbound, uid |-> None, gid |-> None,
         adminc |-> "none", closes |-> 0, session |-> None,
         conn |-> "none", conncloses |-> 0, authstate |-> None,
         lconn |-> None, result |-> None, stored |-> FALSE,
         getconn |-> Unbound, missing |-> {}, compatible |-> Unbound,
         calls |-> [c \in CallNames |-> 0]]

Log(r, c) == [r.calls EXCEPT ![c] = @ + 1]

\* An exception leaves the handler: PermissionDenied is the framework's
\* access-denied response, every other exception its error response.
Raise(r, exc) == [r EXCEPT !.pc = "done", !.result = exc]

Return(r, rsp) == [r EXCEPT !.pc = "done", !.result = rsp]

\* The server starts with the experimenter alice and the group g1; bob and g2
\* are created on demand.  The browser may have been shown the sign-in page
\* before, so that its session holds an oauth_state.
Init ==
    /\ req = [w \in Workers |-> Idle]
    /\ websession \in [oauth_state : {None, "s1"}, connector : {None}]
    /\ accounts = [n \in Names |-> IF n = "alice" THEN 1 ELSE 0]
    /\ groups = [n \in GroupNames |-> IF n = "g1" THEN 1 ELSE 0]
    /\ settings \in [CHECK_VERSION : BOOLEAN, LOGIN_REDIRECT : BOOLEAN]
    /\ started = 0

Accept(w) ==
    /\ req[w].pc = "idle"
    /\ started < MaxRequests
    /\ started' = started + 1

\* ------------------------------------------------------------------ index

\* handle_logged_in without the `except` around parse_url: no response when
\* LOGIN_REDIRECT cannot be parsed.
handle_logged_in_unparsed(conn) ==
    IF conn # None /\ settings.LOGIN_REDIRECT THEN "redirect_landing" ELSE None

\* handle_logged_in from `if conn is not None`: the redirect, or None.
handle_logged_in(conn) ==
    IF conn # None
    THEN IF settings.LOGIN_REDIRECT THEN "redirect_landing"
         ELSE "redirect_webindex"
    ELSE None

\* handle_not_logged_in that forgets to put the state into the session.
store_oauth_state_forgotten(state) == websession

\* handle_not_logged_in, `request.session['oauth_state'] = state`.
store_oauth_state(state) == [websession EXCEPT !.oauth_state = state]

\* handle_not_logged_in: the sign-in page, whose authorization URL carries state.
handle_not_logged_in(r, state) == Return([r EXCEPT !.authstate = state], "signin")

\* index from the point where handle_logged_in knows conn: its response when
\* there is one, the sign-in page otherwise.
index_response(w, r, conn) ==
    LET rsp == handle_logged_in(conn) IN
    IF rsp # None
    THEN /\ req' = [req EXCEPT ![w] = Return([r EXCEPT !.lconn = conn], rsp)]
         /\ UNCHANGED websession
    ELSE \E state \in StateTokens :
         /\ websession' = store_oauth_state(state)
         /\ req' = [req EXCEPT ![w] =
                      handle_not_logged_in([r EXCEPT !.lconn = conn], state)]

\* index(request, **kwargs) with kwargs['conn'] given or not.
index(w) ==
    /\ Accept(w)
    /\ \E conn \in {None, "conn"} :
         LET r == [req[w] EXCEPT !.kind = "index"] IN
         IF conn # None
         THEN index_response(w, r, conn)
         ELSE /\ req' = [req EXCEPT ![w] = [r EXCEPT !.pc = "get_connection"]]
              /\ UNCHANGED websession
    /\ UNCHANGED <<accounts, groups, settings>>

\* handle_logged_in without the try around get_connection: the exception
\* leaves index.
except_get_connection_missing(w, r) ==
    /\ req' = [req EXCEPT ![w] = Raise(r, "Exception")]
    /\ UNCHANGED websession

\* handle_logged_in, `except Exception: conn = None`.
except_get_connection(w, r) == index_response(w, r, None)

\* check.get_connection(server_id, request): a connection, None, or an
\* exception, which handle_logged_in turns into None.
get_connection(w) ==
    /\ req[w].pc = "get_connection"
    /\ \E out \in {"conn", None, "raise"} :
         LET r == [req[w] EXCEPT !.calls = Log(req[w], "get_connection"),
                                 !.getconn = out]
         IN  IF out = "raise" THEN except_get_connection(w, r)
             ELSE index_response(w, r, out)
    /\ UNCHANGED <<accounts, groups, settings, started>>

\* ------------------------------------------------------------------ callback

\* callback without the guard on code.
callback_check_state_only(r) ==
    IF Falsy(r.state) THEN Raise(r, "PermissionDenied")
    ELSE [r EXCEPT !.pc = "fetch_token"]

\* callback, the two guards before the OAuth2Session is built.
callback_check(r) ==
    IF Falsy(r.state) THEN Raise(r, "PermissionDenied")
    ELSE IF Falsy(r.code) THEN Raise(r, "PermissionDenied")
    ELSE [r EXCEPT !.pc = "fetch_token"]

\* callback(request): request.GET carries code and the state the provider
\* returned; only code is read.
callback(w) ==
    /\ Accept(w)
    /\ \E code \in Codes, retstate \in StateTokens \cup {None} :
         LET r == [req[w] EXCEPT !.kind = "callback",
                                 !.state = websession.oauth_state,
                                 !.code = code, !.retstate = retstate]
         IN  req' = [req EXCEPT ![w] = callback_check(r)]
    /\ UNCHANGED <<websession, accounts, groups, settings>>

\* oauth.fetch_token(..., code=code): the provider accepts or rejects the code.
fetch_token(w) ==
    /\ req[w].pc = "fetch_token"
    /\ \E ok \in BOOLEAN :
         LET r == [req[w] EXCEPT !.calls = Log(req[w], "fetch_token")]
         IN  req' = [req EXCEPT ![w] =
                       IF ok THEN [r EXCEPT !.pc = "userinfo"]
                       ELSE Raise(r, "OAuth2Error")]
    /\ UNCHANGED <<websession, accounts, groups, settings, started>>

\* callback expanding only the login name before it resolves the account.
expand_templates_name_only(r, userinfo) ==
    IF _expand_template("OAUTH_USER_NAME", userinfo) = "KeyError"
    THEN Raise(r, "KeyError")
    ELSE [r EXCEPT !.omename = _expand_template("OAUTH_USER_NAME", userinfo),
                   !.pc = "connect"]

\* callback, the four template expansions and the call they lead to.
expand_templates(r, userinfo) ==
    IF \E i \in 1..Len(TemplateOrder) :
          _expand_template(TemplateOrder[i], userinfo) = "KeyError"
    THEN Raise(r, "KeyError")
    ELSE [r EXCEPT !.omename = _expand_template("OAUTH_USER_NAME", userinfo),
                   !.pc = "connect"]

\* oauth.get(OAUTH_URL_USERINFO).json()
userinfo(w) ==
    /\ req[w].pc = "userinfo"
    /\ LET r == [req[w] EXCEPT !.calls = Log(req[w], "userinfo")] IN
       \/ \E u \in UserInfos :
             req' = [req EXCEPT ![w] = expand_templates(
                        [r EXCEPT !.missing = Fields \ u.present], u)]
       \/ req' = [req EXCEPT ![w] = Raise(r, "RequestException")]
    /\ UNCHANGED <<websession, accounts, groups, settings, started>>

\* ------------------------------------------- get_or_create_account_and_session

\* get_or_create_account_and_session without the finally clause.
finally_close_missing(r) == r

\* `finally: adminc.close()`
finally_close(r) ==
    [r EXCEPT !.adminc = "closed", !.closes = @ + 1, !.calls = Log(r, "close")]

\* get_or_create_account_and_session without the test of connect()'s result.
connect_unchecked(w) ==
    /\ req[w].pc = "connect"
    /\ \E ok \in BOOLEAN :
         LET r == [req[w] EXCEPT !.calls = Log(req[w], "connect")]
         IN  req' = [req EXCEPT ![w] =
                       [r EXCEPT !.adminc = IF ok THEN "open" ELSE "none",
                                 !.pc = "getExperimenter"]]
    /\ UNCHANGED <<websession, accounts, groups, settings, started>>

\* adminc.connect()
connect(w) ==
    /\ req[w].pc = "connect"
    /\ \E ok \in BOOLEAN :
         LET r == [req[w] EXCEPT !.calls = Log(req[w], "connect")]
         IN  req' = [req EXCEPT ![w] =
                       IF ok THEN [r EXCEPT !.adminc = "open",
                                            !.pc = "getExperimenter"]
                       ELSE Raise(r, "Exception")]
    /\ UNCHANGED <<websession, accounts, groups, settings, started>>

Uid == [alice |-> "uid_alice", bob |-> "uid_bob"]

Gid == [g1 |-> "gid_g1", g2 |-> "gid_g2"]

Token == [alice |-> "session_alice", bob |-> "session_bob"]

\* The branch on e with the test dropped: always get-or-create.
after_lookup_always_create(r) == [r EXCEPT !.pc = "getGroup"]

\* The branch on e asking for the session before the account is created.
after_lookup_session_first(r) ==
    IF r.e # None THEN [r EXCEPT !.uid = Uid[r.omename], !.pc = "createSession"]
    ELSE [r EXCEPT !.pc = "createSession"]

\* The branch on the looked-up experimenter e.
after_lookup(r) ==
    IF r.e # None THEN [r EXCEPT !.uid = Uid[r.omename], !.pc = "createSession"]
    ELSE [r EXCEPT !.pc = "getGroup"]

\* adminc.getObject('Experimenter', attributes={'omeName': omename})
getExperimenter(w) ==
    /\ req[w].pc = "getExperimenter"
    /\ LET r == [req[w] EXCEPT !.calls = Log(req[w], "getExperimenter")] IN
       \/ req' = [req EXCEPT ![w] = after_lookup(
                    [r EXCEPT !.e = IF accounts[r.omename] > 0
                                    THEN "Experimenter" ELSE None])]
       \/ req' = [req EXCEPT ![w] = finally_close(Raise(r, "Exception"))]
    /\ UNCHANGED <<websession, accounts, groups, settings, started>>

\* get_or_create_group with the test on g dropped: always createGroup.
after_group_lookup_always_create(r) == [r EXCEPT !.pc = "createGroup"]

\* get_or_create_group, the branch on the looked-up group g.
after_group_lookup(r) ==
    IF r.g # None THEN [r EXCEPT !.gid = Gid[r.groupname],
                                 !.pc = "createExperimenter"]
    ELSE [r EXCEPT !.pc = "createGroup"]

\* get_or_create_group: the group name (fixed, or formatted with the current
\* time) and adminc.getObject('ExperimenterGroup', attributes={'name': groupname})
getGroup(w) ==
    /\ req[w].pc = "getGroup"
    /\ \E groupname \in GroupNames :
       LET r == [req[w] EXCEPT !.calls = Log(req[w], "getGroup"),
                               !.groupname = groupname] IN
       \/ req' = [req EXCEPT ![w] = after_group_lookup(
                    [r EXCEPT !.g = IF groups[groupname] > 0
                                    THEN "ExperimenterGroup" ELSE None])]
       \/ req' = [req EXCEPT ![w] = finally_close(Raise(r, "Exception"))]
    /\ UNCHANGED <<websession, accounts, groups, settings, started>>

\* get_or_create_group: BlitzGateway.createGroup(name=groupname, ...)
createGroup(w) ==
    /\ req[w].pc = "createGroup"
    /\ LET r == [req[w] EXCEPT !.calls = Log(req[w], "createGroup")] IN
       \/ /\ groups' = [groups EXCEPT ![r.groupname] = @ + 1]
          /\ req' = [req EXCEPT ![w] = [r EXCEPT !.gid = Gid[r.groupname],
                                                 !.pc = "createExperimenter"]]
       \/ /\ req' = [req EXCEPT ![w] = finally_close(Raise(r, "Exception"))]
          /\ UNCHANGED groups
    /\ UNCHANGED <<websession, accounts, settings, started>>

\* create_user as a compare-and-create: the call is issued only while the
\* server has no experimenter of that name.
create_user_if_absent(w) ==
    /\ req[w].pc = "createExperimenter"
    /\ accounts[req[w].omename] = 0
    /\ LET r == [req[w] EXCEPT !.calls = Log(req[w], "createExperimenter")] IN
       /\ accounts' = [accounts EXCEPT ![r.omename] = @ + 1]
       /\ req' = [req EXCEPT ![w] = [r EXCEPT !.uid = Uid[r.omename],
                                              !.pc = "createSession"]]
    /\ UNCHANGED <<websession, groups, settings, started>>

\* create_user cleaning up after a failure: the group this request created is
\* removed again.
create_user_rollback(w) ==
    /\ req[w].pc = "createExperimenter"
    /\ LET r == [req[w] EXCEPT !.calls = Log(req[w], "createExperimenter")] IN
       \/ /\ accounts' = [accounts EXCEPT ![r.omename] = @ + 1]
          /\ req' = [req EXCEPT ![w] = [r EXCEPT !.uid = Uid[r.omename],
                                                 !.pc = "createSession"]]
          /\ UNCHANGED groups
       \/ /\ req' = [req EXCEPT ![w] = finally_close(Raise(r, "Exception"))]
          /\ groups' = [groups EXCEPT ![r.groupname] =
                           IF r.g = None THEN @ - 1 ELSE @]
          /\ UNCHANGED accounts
    /\ UNCHANGED <<websession, settings, started>>

\* create_user: adminc.createExperimenter(omeName=omename, ...)
create_user(w) ==
    /\ req[w].pc = "createExperimenter"
    /\ LET r == [req[w] EXCEPT !.calls = Log(req[w], "createExperimenter")] IN
       \/ /\ accounts' = [accounts EXCEPT ![r.omename] = @ + 1]
          /\ req' = [req EXCEPT ![w] = [r EXCEPT !.uid = Uid[r.omename],
                                                 !.pc = "createSession"]]
       \/ /\ req' = [req EXCEPT ![w] = finally_close(Raise(r, "Exception"))]
          /\ UNCHANGED accounts
    /\ UNCHANGED <<websession, groups, settings, started>>

\* login_with_session up to its first call: check_version when enabled.
login_with_session(r) ==
    IF settings.CHECK_VERSION
    THEN [r EXCEPT !.compatible = "True", !.pc = "check_version"]
    ELSE [r EXCEPT !.compatible = "True", !.pc = "create_connection"]

\* get_session_for_user: createSessionWithTimeout for the principal omename.
\* The server issues a session only for an experimenter it has (the guards of
\* createSession and test_login_session), and may refuse in any case.
get_session_for_user(r, omename) ==
    [r EXCEPT !.session = Token[omename], !.calls = Log(r, "createSession")]

\* get_or_create_account_and_session: the session is issued, the connection
\* closed, and callback goes on to login_with_session.
createSession(w) ==
    /\ req[w].pc = "createSession"
    /\ \/ /\ accounts[req[w].omename] > 0
          /\ req' = [req EXCEPT ![w] = login_with_session(
                       finally_close(get_session_for_user(req[w], req[w].omename)))]
       \/ req' = [req EXCEPT ![w] = finally_close(Raise(
                    [req[w] EXCEPT !.calls = Log(req[w], "createSession")],
                    "Exception"))]
    /\ UNCHANGED <<websession, accounts, groups, settings, started>>

\* ------------------------------------------------------------------ test_login

\* test_login behind the guard of callback: it reads the session's oauth_state
\* and refuses without one.
test_login_reads_state(w) ==
    /\ Accept(w)
    /\ \E username \in Names :
         LET r == [req[w] EXCEPT !.kind = "test_login", !.omename = username,
                                 !.state = websession.oauth_state]
         IN  req' = [req EXCEPT ![w] =
                       IF Falsy(r.state) THEN Raise(r, "PermissionDenied")
                       ELSE [r EXCEPT !.pc = "test_login_connect"]]
    /\ UNCHANGED <<websession, accounts, groups, settings>>

\* test_login(request, username)
test_login(w) ==
    /\ Accept(w)
    /\ \E username \in Names :
         req' = [req EXCEPT ![w] = [req[w] EXCEPT !.kind = "test_login",
                                                  !.omename = username,
                                                  !.pc = "test_login_connect"]]
    /\ UNCHANGED <<websession, accounts, groups, settings>>

\* test_login: `assert adminc.connect()`
test_login_connect(w) ==
    /\ req[w].pc = "test_login_connect"
    /\ \E ok \in BOOLEAN :
         LET r == [req[w] EXCEPT !.calls = Log(req[w], "connect")]
         IN  req' = [req EXCEPT ![w] =
                       IF ok THEN [r EXCEPT !.adminc = "open",
                                            !.pc = "test_login_session"]
                       ELSE Raise(r, "AssertionError")]
    /\ UNCHANGED <<websession, accounts, groups, settings, started>>

\* test_login: get_session_for_user, then login_with_session.
test_login_session(w) ==
    /\ req[w].pc = "test_login_session"
    /\ \/ /\ accounts[req[w].omename] > 0
          /\ req' = [req EXCEPT ![w] = login_with_session(
                       get_session_for_user(req[w], req[w].omename))]
       \/ req' = [req EXCEPT ![w] = Raise(
                    [req[w] EXCEPT !.calls = Log(req[w], "createSession")],
                    "Exception")]
    /\ UNCHANGED <<websession, accounts, groups, settings, started>>

\* ------------------------------------------------------------------ login_with_session

\* connector.check_version(USERAGENT)
check_version(w) ==
    /\ req[w].pc = "check_version"
    /\ \E compatible \in BOOLEAN :
         LET r == [req[w] EXCEPT !.calls = Log(req[w], "check_version")]
         IN  req' = [req EXCEPT ![w] =
                       IF compatible THEN [r EXCEPT !.pc = "create_connection"]
                       ELSE Raise([r EXCEPT !.compatible = "False"],
                                  "Exception")]
    /\ UNCHANGED <<websession, accounts, groups, settings, started>>

\* login_with_session without the finally clause.
finally_conn_close_missing(r) == r

\* `finally: conn.close(hard=False)`
finally_conn_close(r) ==
    [r EXCEPT !.conn = "closed", !.conncloses = @ + 1,
              !.calls = Log(r, "conn_close")]

\* login_with_session storing the connector before it tests conn.
after_create_connection_stores_first(r, conn, UPGRADES_URL) ==
    IF conn # None
    THEN [r EXCEPT !.conn = "open", !.stored = TRUE,
                   !.pc = IF UPGRADES_URL THEN "upgradeCheck"
                          ELSE "getUpgradesUrl"]
    ELSE Raise([r EXCEPT !.stored = TRUE], "Exception")

\* login_with_session after create_connection: for a connection the connector
\* is stored and settings.UPGRADES_URL read (when it is not set, AttributeError,
\* the server is asked for it); for None the handler raises.
after_create_connection(r, conn, UPGRADES_URL) ==
    IF conn # None
    THEN [r EXCEPT !.conn = "open", !.stored = TRUE,
                   !.pc = IF UPGRADES_URL THEN "upgradeCheck"
                          ELSE "getUpgradesUrl"]
    ELSE Raise(r, "Exception")

\* connector.create_connection(...) and, for a connection, the store of the
\* connector in the session.
create_connection(w) ==
    /\ req[w].pc = "create_connection"
    /\ \E conn \in {"conn", None}, UPGRADES_URL \in BOOLEAN :
         LET r == after_create_connection(
                     [req[w] EXCEPT !.calls = Log(req[w], "create_connection")],
                     conn, UPGRADES_URL)
         IN  /\ req' = [req EXCEPT ![w] = r]
             /\ websession' = IF r.stored
                              THEN [websession EXCEPT !.connector = r.session]
                              ELSE websession
    /\ UNCHANGED <<accounts, groups, settings, started>>

\* conn.getUpgradesUrl(), when settings has no UPGRADES_URL
getUpgradesUrl(w) ==
    /\ req[w].pc = "getUpgradesUrl"
    /\ \E ok \in BOOLEAN :
         LET r == [req[w] EXCEPT !.calls = Log(req[w], "getUpgradesUrl")]
         IN  req' = [req EXCEPT ![w] =
                       IF ok THEN [r EXCEPT !.pc = "upgradeCheck"]
                       ELSE finally_conn_close(Raise(r, "ServerError"))]
    /\ UNCHANGED <<websession, accounts, groups, settings, started>>

\* login_with_session calling handle_logged_in(request) without conn.
upgradeCheck_without_conn(w) ==
    /\ req[w].pc = "upgradeCheck"
    /\ \E ok \in BOOLEAN :
         LET r == [req[w] EXCEPT !.calls = Log(req[w], "upgradeCheck")]
         IN  req' = [req EXCEPT ![w] =
                       IF ok THEN finally_conn_close(
                                     Return(r, handle_logged_in(None)))
                       ELSE finally_conn_close(Raise(r, "UpgradeCheckError"))]
    /\ UNCHANGED <<websession, accounts, groups, settings, started>>

\* upgradeCheck(url=upgrades_url), then handle_logged_in(request, conn=conn)
upgradeCheck(w) ==
    /\ req[w].pc = "upgradeCheck"
    /\ \E ok \in BOOLEAN :
         LET r == [req[w] EXCEPT !.calls = Log(req[w], "upgradeCheck")]
         IN  req' = [req EXCEPT ![w] =
                       IF ok THEN finally_conn_close(
                                     Return(r, handle_logged_in("conn")))
                       ELSE finally_conn_close(Raise(r, "UpgradeCheckError"))]
    /\ UNCHANGED <<websession, accounts, groups, settings, started>>

\* ------------------------------------------------------------------ next

\* The response is sent and the worker is free for the next request.
Respond(w) ==
    /\ req[w].pc = "done"
    /\ req' = [req EXCEPT ![w] = Idle]
    /\ UNCHANGED <<websession, accounts, groups, settings, started>>

Next ==
    \E w \in Workers :
       \/ index(w)
       \/ get_connection(w)
       \/ callback(w)
       \/ fetch_token(w)
       \/ userinfo(w)
       \/ connect(w)
       \/ getExperimenter(w)
       \/ getGroup(w)
       \/ createGroup(w)
       \/ create_user(w)
       \/ createSession(w)
       \/ test_login(w)
       \/ test_login_connect(w)
       \/ test_login_session(w)
       \/ check_version(w)
       \/ create_connection(w)
       \/ getUpgradesUrl(w)
       \/ upgradeCheck(w)
       \/ Respond(w)

Spec == Init /\ [][Next]_vars

\* ------------------------------------------------------------------ properties

Callbacks == {w \in Workers : req[w].kind = "callback"}

NoCalls(r, cs) == \A c \in cs : r.calls[c] = 0

\* The worker w takes the step.
Steps(w) == req'[w] # req[w]

\* The positions of the callback inside the try block of
\* get_or_create_account_and_session.
InResolution == {"getExperimenter", "getGroup", "createGroup",
                 "createExperimenter", "createSession"}

\* C1: a callback whose returned state differs from the oauth_state of the
\* session is rejected: it exchanges no code, looks up or creates no account,
\* gets no session issued, stores no connector, and ends access-denied.
C1_StateMismatchRejected ==
    \A w \in Callbacks :
       req[w].retstate # req[w].state =>
          /\ NoCalls(req[w], {"fetch_token", "getExperimenter",
                              "createExperimenter", "createSession"})
          /\ req[w].session = None
          /\ ~req[w].stored
          /\ req[w].pc = "done" => req[w].result = "PermissionDenied"

\* C2: a callback with no (or an empty) oauth_state in the session, or no (or
\* an empty) code in the query, has ended access-denied without any call to
\* the provider or on the administrative connection.
C2_MissingStateOrCodeDenied ==
    \A w \in Callbacks :
       Falsy(req[w].state) \/ Falsy(req[w].code) =>
          /\ req[w].pc = "done"
          /\ req[w].result = "PermissionDenied"
          /\ NoCalls(req[w], ProviderCalls \cup AdminCalls)

\* A callback with a state in the session and an empty code was denied.
C2_Witness ==
    \E w \in Callbacks :
       /\ req[w].state \in StateTokens
       /\ req[w].code = Empty
       /\ req[w].result = "PermissionDenied"

\* C3: a callback whose code the provider rejected at the token exchange ends
\* access-denied, with no account resolution and no session issued.
C3_RejectedExchangeDenied ==
    \A w \in Callbacks :
       /\ req[w].pc = "done"
       /\ req[w].calls["fetch_token"] = 1
       /\ req[w].calls["userinfo"] = 0
       => /\ req[w].result = "PermissionDenied"
          /\ NoCalls(req[w], AdminCalls)
          /\ req[w].session = None

\* C4: in get_or_create_account_and_session, a connected administrative
\* connection is open and not yet closed inside the try block, and closed
\* exactly once when the function has returned or raised.
C4_AdminClosedExactlyOnce ==
    \A w \in Callbacks :
       req[w].adminc # "none" =>
          IF req[w].pc \in InResolution
          THEN req[w].adminc = "open" /\ req[w].closes = 0
          ELSE req[w].adminc = "closed" /\ req[w].closes = 1
               /\ req[w].calls["close"] = 1

\* The user creation raised and the connection was closed once.
C4_Witness ==
    \E w \in Callbacks :
       /\ req[w].pc = "done"
       /\ req[w].result = "Exception"
       /\ req[w].calls["createExperimenter"] = 1
       /\ req[w].uid = None
       /\ req[w].closes = 1

\* C5: when the handling of a callback or test_login request ends, the
\* administrative connection it connected has been closed.
C5_AdminReleasedAtEnd ==
    \A w \in Workers :
       /\ req[w].kind \in {"callback", "test_login"}
       /\ req[w].pc = "done"
       /\ req[w].adminc # "none"
       => req[w].adminc = "closed"

\* C6: a callback whose lookup found the account makes no group lookup, no
\* group creation and no user creation, its only mutating call is the session
\* issuance for that login name, and none of its steps changes the
\* experimenters or groups of the server.
C6_Found ==
    \A w \in Callbacks :
       req[w].e = "Experimenter" =>
          /\ NoCalls(req[w], {"getGroup", "createGroup", "createExperimenter"})
          /\ req[w].calls["createSession"] <= 1
          /\ req[w].session \in {None, Token[req[w].omename]}

C6_FoundStep ==
    \A w \in Workers :
       req'[w].kind = "callback" /\ req'[w].e = "Experimenter" /\ Steps(w) =>
          accounts' = accounts /\ groups' = groups

C6_ExistingAccountNoCreation == []C6_Found /\ [][C6_FoundStep]_vars

\* The account was found and the session issued.
C6_Witness ==
    \E w \in Callbacks :
       /\ req[w].e = "Experimenter"
       /\ req[w].calls["createSession"] = 1
       /\ req[w].session = Token[req[w].omename]

\* C7: a callback whose lookup found no account and whose resolution returned
\* has made exactly one user-creation call, for that login name, and one
\* group-creation call when the group was absent and none when it existed;
\* the group is resolved before the user is created, the user creation adds
\* one experimenter of that name and nothing else, and the session returned is
\* the one issued for that login name.
C7_Absent ==
    \A w \in Callbacks :
       req[w].e = None =>
          /\ req[w].calls["createGroup"] <= 1
          /\ req[w].calls["createExperimenter"] <= 1
          /\ req[w].calls["createGroup"] = 1 => req[w].g = None
          /\ req[w].calls["createExperimenter"] = 1 => req[w].gid # None
          /\ req[w].session # None =>
                /\ req[w].calls["getGroup"] = 1
                /\ req[w].calls["createGroup"] = (IF req[w].g = None THEN 1 ELSE 0)
                /\ req[w].calls["createExperimenter"] = 1
                /\ req[w].gid = Gid[req[w].groupname]
                /\ req[w].uid = Uid[req[w].omename]
                /\ req[w].session = Token[req[w].omename]
                /\ accounts[req[w].omename] >= 1

C7_CreateStep ==
    \A w \in Workers :
       req[w].pc = "createExperimenter" /\ req'[w].pc = "createSession" =>
          /\ req[w].gid # None
          /\ groups[req[w].groupname] >= 1
          /\ accounts' = [accounts EXCEPT ![req[w].omename] = @ + 1]
          /\ groups' = groups

C7_AbsentAccountCreatedOnce == []C7_Absent /\ [][C7_CreateStep]_vars

\* Account and group were both absent; both were created and the session issued.
C7_Witness ==
    \E w \in Callbacks :
       /\ req[w].e = None /\ req[w].g = None
       /\ req[w].calls["createGroup"] = 1
       /\ req[w].calls["createExperimenter"] = 1
       /\ req[w].session = Token[req[w].omename]
       /\ \A v \in Workers \ {w} : req[v].pc = "idle"

\* C8: lookup and creation are not atomic: a callback that observed the
\* account (the group) as absent can issue its creation call whatever the other
\* handlers have done since, also when the account (the group) exists by now.
C8_CreationUnguarded ==
    \A w \in Callbacks :
       /\ req[w].pc = "createExperimenter" =>
             ENABLED (create_user(w) /\ accounts' # accounts)
       /\ req[w].pc = "createGroup" =>
             ENABLED (createGroup(w) /\ groups' # groups)

\* Two concurrent callbacks for the same login name both observed the account
\* and the same group as absent and both issued both creation calls.
C8_Witness ==
    /\ \A w \in Workers :
          /\ req[w].kind = "callback"
          /\ req[w].e = None /\ req[w].g = None
          /\ req[w].calls["createGroup"] = 1
          /\ req[w].calls["createExperimenter"] = 1
    /\ \E n \in Names : \A w \in Workers : req[w].omename = n
    /\ \E n \in GroupNames : \A w \in Workers : req[w].groupname = n

\* C9: an index request for which a connection was found (passed in or
\* resolved) ends with the redirect to the landing URL, or to the default
\* index when LOGIN_REDIRECT cannot be parsed; it renders no sign-in page and
\* its steps leave the session's oauth_state alone.
C9_Redirected ==
    \A w \in Workers :
       req[w].kind = "index" /\ req[w].lconn # None =>
          /\ req[w].pc = "done"
          /\ req[w].result = (IF settings.LOGIN_REDIRECT THEN "redirect_landing"
                              ELSE "redirect_webindex")
          /\ req[w].authstate = None

C9_RedirectStep ==
    \A w \in Workers :
       req'[w].kind = "index" /\ req'[w].lconn # None /\ Steps(w) =>
          websession' = websession

C9_ValidConnectionRedirects == []C9_Redirected /\ [][C9_RedirectStep]_vars

\* A resolved connection with an unparsable LOGIN_REDIRECT: the default index.
C9_Witness ==
    \E w \in Workers :
       /\ req[w].kind = "index" /\ req[w].lconn # None
       /\ req[w].calls["get_connection"] = 1
       /\ req[w].result = "redirect_webindex"

\* C10: when an index request for which no connection was found returns, it
\* returns the sign-in page and the session's oauth_state is the non-empty
\* state of the authorization URL of this request.
C10_SignInStep ==
    \A w \in Workers :
       /\ req[w].kind \in {None, "index"} /\ req[w].pc # "done"
       /\ req'[w].kind = "index" /\ req'[w].pc = "done" /\ req'[w].lconn = None
       => /\ req'[w].result = "signin"
          /\ ~Falsy(req'[w].authstate)
          /\ websession'.oauth_state = req'[w].authstate

C10_NoConnectionSignIn == [][C10_SignInStep]_vars

\* The sign-in page was rendered and replaced an older oauth_state.
C10_Witness ==
    \E w \in Workers :
       /\ req[w].kind = "index" /\ req[w].result = "signin"
       /\ req[w].calls["get_connection"] = 1
       /\ websession.oauth_state = "s2"
       /\ \E v \in Callbacks : req[v].state = "s1"

\* C11: when get_connection raises during an index request, the request ends
\* as a not-logged-in request does: with the sign-in page, and with the state
\* of its authorization URL stored as the session's oauth_state; no error
\* reaches the user.
C11_Swallowed ==
    \A w \in Workers :
       req[w].kind = "index" /\ req[w].getconn = "raise" =>
          /\ req[w].pc = "done"
          /\ req[w].result = "signin"
          /\ req[w].lconn = None
          /\ req[w].authstate \in StateTokens

C11_SwallowedStep ==
    \A w \in Workers :
       req'[w].kind = "index" /\ req'[w].getconn = "raise" /\ Steps(w) =>
          websession'.oauth_state = req'[w].authstate

C11_ResolutionFailureSwallowed == []C11_Swallowed /\ [][C11_SwallowedStep]_vars

\* get_connection raised and the sign-in page was rendered.
C11_Witness ==
    \E w \in Workers :
       /\ req[w].kind = "index" /\ req[w].getconn = "raise"
       /\ req[w].calls["get_connection"] = 1
       /\ req[w].result = "signin"
       /\ websession.oauth_state = req[w].authstate

\* The responses and the exceptions a handler ends with.
Redirects == {"redirect_landing", "redirect_webindex"}

Errors == {"PermissionDenied", "OAuth2Error", "RequestException", "KeyError",
           "AssertionError", "Exception", "ServerError", "UpgradeCheckError"}

TestLogins == {w \in Workers : req[w].kind = "test_login"}

\* C12: when a callback that passed both guards, and so used the oauth_state it
\* read from the session, has ended, the session no longer holds that value.
C12_StateSingleUse ==
    \A w \in Callbacks :
       req[w].pc = "done" /\ req[w].calls["fetch_token"] = 1 =>
          websession.oauth_state # req[w].state

InLogin == {w \in Workers : req[w].compatible # Unbound}

\* C14: login_with_session has stored the connector exactly when the server is
\* compatible (the check made when CHECK_VERSION is set) and create_connection
\* returned a connection; an incompatible server ends it with the generic
\* error and without a create_connection call, a create_connection returning
\* nothing ends it with the generic error, and the steps of a request that
\* stores no connector leave the session's connector entry alone.
C14_Stored ==
    \A w \in InLogin :
       /\ req[w].stored <=> (req[w].compatible = "True" /\ req[w].conn # "none")
       /\ req[w].conn # "none" =>
             /\ req[w].calls["create_connection"] = 1
             /\ req[w].calls["check_version"] = (IF settings.CHECK_VERSION THEN 1 ELSE 0)
       /\ req[w].compatible = "False" =>
             /\ req[w].pc = "done" /\ req[w].result = "Exception"
             /\ req[w].calls["create_connection"] = 0
       /\ req[w].calls["create_connection"] = 1 /\ req[w].conn = "none" =>
             req[w].pc = "done" /\ req[w].result = "Exception"

C14_StoreStep ==
    \A w \in Workers :
       Steps(w) =>
          IF req'[w].stored /\ ~req[w].stored
          THEN websession'.connector = req'[w].session
          ELSE websession'.connector = websession.connector

C14_ConnectorStoredIffLoggedIn == []C14_Stored /\ [][C14_StoreStep]_vars

\* One request was refused as incompatible, another got no connection; neither
\* stored a connector.
C14_Witness ==
    \E w, v \in InLogin :
       /\ req[w].compatible = "False" /\ req[w].result = "Exception"
       /\ req[v].calls["create_connection"] = 1 /\ req[v].conn = "none"
       /\ req[v].result = "Exception"
       /\ websession.connector = None

\* C15: within one request every call on a collaborator is made at most once;
\* no step removes an experimenter or a group, and the step on which a request
\* fails changes neither: what an earlier step created stays, and only the
\* administrative connection is closed.
C15_AtMostOnce ==
    \A w \in Workers : \A c \in CallNames : req[w].calls[c] <= 1

C15_FailStep ==
    /\ \A n \in Names : accounts'[n] >= accounts[n]
    /\ \A n \in GroupNames : groups'[n] >= groups[n]
    /\ \A w \in Workers :
          req[w].pc # "done" /\ req'[w].pc = "done" /\ req'[w].result \in Errors =>
             /\ accounts' = accounts /\ groups' = groups
             /\ websession' = websession
             /\ req'[w].adminc \in {req[w].adminc, "closed"}

C15_FailFast == []C15_AtMostOnce /\ [][C15_FailStep]_vars

\* The user creation failed after this request had created the group, and the
\* group is still there.
C15_Witness ==
    \E w \in Callbacks :
       /\ req[w].pc = "done" /\ req[w].result = "Exception"
       /\ req[w].g = None /\ req[w].calls["createGroup"] = 1
       /\ req[w].calls["createExperimenter"] = 1 /\ req[w].uid = None
       /\ groups[req[w].groupname] = 1
       /\ req[w].adminc = "closed"

\* C16: a callback whose administrative connection failed to connect has
\* raised without an account or group lookup, a creation or a session
\* issuance, and never reaches login_with_session: it stores no connector.
C16_ConnectFailureRaises ==
    \A w \in Callbacks :
       req[w].calls["connect"] = 1 /\ req[w].adminc = "none" =>
          /\ req[w].pc = "done" /\ req[w].result = "Exception"
          /\ NoCalls(req[w], AdminCalls \ {"connect"})
          /\ NoCalls(req[w], FrameworkCalls)
          /\ req[w].session = None
          /\ req[w].compatible = Unbound
          /\ ~req[w].stored

\* The connect of a callback failed, after token exchange and userinfo fetch.
C16_Witness ==
    \E w \in Callbacks :
       /\ req[w].calls["userinfo"] = 1
       /\ req[w].calls["connect"] = 1 /\ req[w].adminc = "none"
       /\ req[w].result = "Exception"

\* C17: in a callback the token exchange precedes the userinfo fetch, which
\* precedes the admin connect; the session is asked for only after the account
\* was found or its creation returned, and only on the open administrative
\* connection; login_with_session starts only when that connection is closed.
C17_Order ==
    \A w \in Callbacks :
       /\ req[w].calls["userinfo"] >= 1 => req[w].calls["fetch_token"] = 1
       /\ req[w].calls["connect"] >= 1 => req[w].calls["userinfo"] = 1
       /\ req[w].adminc # "none" => req[w].calls["connect"] = 1
       /\ req[w].calls["createSession"] >= 1 =>
             \/ req[w].e = "Experimenter"
             \/ req[w].calls["createExperimenter"] = 1 /\ req[w].uid # None
       /\ req[w].compatible # Unbound =>
             /\ req[w].adminc = "closed"
             /\ req[w].session = Token[req[w].omename]
       /\ ~NoCalls(req[w], FrameworkCalls) => req[w].compatible # Unbound

C17_SessionStep ==
    \A w \in Workers :
       /\ req'[w].kind = "callback"
       /\ req'[w].calls["createSession"] > req[w].calls["createSession"]
       => req[w].adminc = "open"

C17_StepsInOrder == []C17_Order /\ [][C17_SessionStep]_vars

\* A callback for a new login name went through every step to the redirect.
C17_Witness ==
    \E w \in Callbacks :
       /\ req[w].e = None /\ req[w].calls["createExperimenter"] = 1
       /\ req[w].calls["createSession"] = 1
       /\ req[w].calls["create_connection"] = 1
       /\ req[w].adminc = "closed"
       /\ req[w].result \in Redirects

\* C18: in login_with_session a connection returned by create_connection is
\* open and not yet closed inside the try block, and soft-closed exactly once
\* when the handler has returned or raised.
C18_ConnSoftClosedOnce ==
    \A w \in Workers :
       req[w].conn # "none" =>
          IF req[w].pc \in {"getUpgradesUrl", "upgradeCheck"}
          THEN req[w].conn = "open" /\ req[w].conncloses = 0
          ELSE /\ req[w].pc = "done"
               /\ req[w].conn = "closed" /\ req[w].conncloses = 1
               /\ req[w].calls["conn_close"] = 1

\* The upgrade check raised and the connection was soft-closed once.
C18_Witness ==
    \E w \in Workers :
       /\ req[w].pc = "done" /\ req[w].result = "UpgradeCheckError"
       /\ req[w].stored
       /\ req[w].conn = "closed" /\ req[w].conncloses = 1

\* C19: login_with_session ends with a redirect or with a raised error and
\* never with an empty response: it returns only after the upgrade check, with
\* the redirect handle_logged_in gives for the connection passed to it, and
\* without a connection resolution.
C19_RedirectOrError ==
    \A w \in InLogin :
       /\ req[w].calls["get_connection"] = 0
       /\ req[w].pc = "done" =>
             /\ req[w].result \in Redirects \cup Errors
             /\ req[w].result \in Redirects =>
                   /\ req[w].calls["upgradeCheck"] = 1
                   /\ req[w].conn = "closed"
                   /\ req[w].result = (IF settings.LOGIN_REDIRECT
                                       THEN "redirect_landing"
                                       ELSE "redirect_webindex")

\* login_with_session returned, with the redirect to the default index.
C19_Witness ==
    \E w \in InLogin :
       /\ req[w].pc = "done" /\ req[w].result = "redirect_webindex"
       /\ req[w].calls["upgradeCheck"] = 1

\* The fields the four identity templates refer to.
Referenced == UNION {Templates[TemplateOrder[i]] : i \in 1..Len(TemplateOrder)}

\* C20: a callback whose userinfo response lacks a field one of the four
\* templates refers to has failed before it acquired an administrative
\* connection: no lookup, no creation, no session, no framework login, and its
\* steps leave the session's connector entry alone.
C20_Failed ==
    \A w \in Callbacks :
       req[w].missing \cap Referenced # {} =>
          /\ req[w].pc = "done" /\ req[w].result = "KeyError"
          /\ req[w].adminc = "none"
          /\ NoCalls(req[w], AdminCalls \cup FrameworkCalls)
          /\ req[w].session = None
          /\ ~req[w].stored

C20_FailedStep ==
    \A w \in Workers :
       req'[w].missing \cap Referenced # {} /\ Steps(w) =>
          websession'.connector = websession.connector

C20_TemplateFailureBeforeAdmin == []C20_Failed /\ [][C20_FailedStep]_vars

\* The userinfo response had the login but no last name: KeyError.
C20_Witness ==
    \E w \in Callbacks :
       /\ req[w].missing = {"last"}
       /\ req[w].calls["userinfo"] = 1
       /\ req[w].result = "KeyError"

====
